---- MODULE Spec2Model ----
(***************************************************************************)
(* ClickDance session engine (src/unnamed/part_000, the App component).    *)
(*                                                                         *)
(* The component is a set of React state cells and refs, changed by event  *)
(* handlers, timer callbacks and effects.  One action of this module is    *)
(* one event: the handler (or timer callback), the re-render it causes and *)
(* the effects of that render, run to completion.                          *)
(*                                                                         *)
(* Closures.  A handler reads the state cells of the render that created   *)
(* it.  Handlers attached to the DOM belong to the latest render, so they  *)
(* read the current state.  The setInterval callback created in startGame  *)
(* keeps the endGame/saveGameRecord of the render in which Start was       *)
(* clicked: its closure is stored with the interval.  The settle-delay and *)
(* particle callbacks only use functional updaters, so they act on the     *)
(* state that is current when they fire.                                   *)
(*                                                                         *)
(* Time.  now is the value Date.now() gave when it was last read, on a     *)
(* compressed scale: what is kept of the milliseconds is which readings    *)
(* are equal, which differ, and that the ids of one generateTarget call    *)
(* are consecutive.  All readings within one event are equal.  An event    *)
(* happens later than the last reading, by more than the id offsets the    *)
(* generator uses, except the click that is dispatched right after the     *)
(* start: it can also read the same millisecond or the next one.  A        *)
(* 300..800 ms timeout outlives at most one 1000 ms countdown tick.        *)
(*                                                                         *)
(* Failures.  storageFails says that localStorage throws or holds text     *)
(* that is not JSON; the code catches no exception of saveGameRecord.  An  *)
(* exception thrown while React renders unmounts the component tree; the   *)
(* setters of an unmounted component do nothing.                           *)
(*                                                                         *)
(* Numbers.  The sensitivity multiplier is kept in quarters (0.5 -> 2) and *)
(* totalDistance in quarter pixels; averageReactionTime, accuracy and      *)
(* clicksPerSecond are exact fractions [num, den].                         *)
(***************************************************************************)
EXTENDS Integers, Sequences, FiniteSets, TLC

VARIABLES
  isGameStarted,        \* useState(false), line 119
  targets,              \* useState<Target[]>([]), line 120
  score,                \* line 121
  sessionDuration,      \* line 123
  timeLeft,             \* line 124
  gameStats,            \* line 125
  showSummary,          \* line 133
  timers,               \* the live setInterval timers, each with its closure
  timerRef,             \* line 135: id of the interval last created (0: none)
  totalReactionTimeRef, \* line 136
  isIntenseMode,        \* line 138
  selectedCursor,       \* line 122
  selectedSound,        \* line 139
  mouseSensitivity,     \* line 140, in quarters
  dragTarget,           \* line 142: <<>> is null, <<t>> the target t
  hitTimeouts,          \* per resolution: its pending setTimeout callbacks
  gameRecords,          \* localStorage['gameRecords']
  storageFails,         \* localStorage throws, or the stored item is not JSON
  now,                  \* the last value read from Date.now()
  mounted,              \* the App component is mounted
  session,              \* history: number of startGame calls so far
  ev,                   \* history: the event handled last
  inputs                \* history: number of input events explored so far

vars == <<isGameStarted, targets, score, sessionDuration, timeLeft, gameStats,
          showSummary, timers, timerRef, totalReactionTimeRef, isIntenseMode,
          mouseSensitivity, hitTimeouts, gameRecords, storageFails, now,
          mounted, session, ev, inputs, selectedCursor, selectedSound,
          dragTarget>>

----------------------------------------------------------------------------
(* Bounds of the exploration *)

MaxInputs == 3
\* the options of each select element that are explored
NumDurations == 2
SensSpread == 1

----------------------------------------------------------------------------
(* Constants of the program *)

SESSION_OPTIONS == <<15, 30, 60, 120, 300, 600>>
SENSITIVITY_OPTIONS == <<2, 3, 4, 5, 6>>
CURSOR_OPTIONS ==
  <<"default", "crosshair", "none", "pointer", "move", "grab", "cell">>
SOUND_OPTIONS == <<"none", "pikachu", "gun", "pop", "laser">>
MaxTargets == 3
MaxFanOut == 2

DurationChoices == {SESSION_OPTIONS[i] : i \in 1..NumDurations}
SensitivityChoices ==
  {SENSITIVITY_OPTIONS[i] : i \in {j \in 1..5 : j - 3 <= SensSpread /\ 3 - j <= SensSpread}}

\* the options of the cursor and sound selects that are explored
CursorChoices == {CURSOR_OPTIONS[1], CURSOR_OPTIONS[2]}
SoundChoices == {SOUND_OPTIONS[1], SOUND_OPTIONS[4]}

Frac(n, d) == [num |-> n, den |-> d]
FracEq(f, n, d) == f.num * d = n * f.den

\* statistics that do not start from zero
InitialStats_NotZero ==
  [totalClicks |-> 1, accurateClicks |-> 0,
   averageReactionTime |-> Frac(0, 1), totalDistance |-> 0]

InitialStats ==
  [totalClicks |-> 0, accurateClicks |-> 0,
   averageReactionTime |-> Frac(0, 1), totalDistance |-> 0]

NoEvent == [op |-> "mount", id |-> 0, sess |-> 0]
Event(o, i, s) == [op |-> o, id |-> i, sess |-> s]

----------------------------------------------------------------------------
(* generateTarget, lines 234-264 *)

\* the fan-out of line 243 taken whatever the mode
FanOutChoices_AlwaysTwo(intense) == {1, MaxFanOut}

\* line 243: isIntenseMode && Math.random() > 0.5 ? 2 : 1
FanOutChoices(intense) == IF intense THEN {1, MaxFanOut} ELSE {1}

\* The random draws of one generateTarget call: one requiresDoubleClick draw
\* (line 255) per generated target; the length is targetsToGenerate.
Rnd(intense) == UNION {[1..n -> BOOLEAN] : n \in FanOutChoices(intense)}

\* a generator that makes every target a path target with a path
NewTarget_PathTarget(t, i, dbl) ==
  [id |-> t + i, createdAt |-> t, isHit |-> FALSE,
   requiresDoubleClick |-> dbl, clickCount |-> 0,
   isPathTarget |-> TRUE, pathLength |-> 4, progress |-> Frac(0, 1),
   isDragging |-> FALSE]

\* lines 250-257.  The generator leaves isHit, isPathTarget, pathPoints,
\* progress and isDragging undefined (lines 56-61): they are given here as
\* the handlers read them, false, no path (pathLength 0) and progress 0.
\* pathLength is the horizontal extent of pathPoints (line 375) and progress
\* the exact fraction travelled.
NewTarget(t, i, dbl) ==
  [id |-> t + i, createdAt |-> t, isHit |-> FALSE,
   requiresDoubleClick |-> dbl, clickCount |-> 0,
   isPathTarget |-> FALSE, pathLength |-> 0, progress |-> Frac(0, 1),
   isDragging |-> FALSE]

\* lines 245-258
NewTargets(rnd, t) == [k \in 1..Len(rnd) |-> NewTarget(t, k - 1, rnd[k])]

\* line 262: combined.slice(0, 3)
\* the cap of line 262 left out
CapTargets_NoSlice(combined) == combined

CapTargets(combined) ==
  IF Len(combined) > MaxTargets THEN SubSeq(combined, 1, MaxTargets) ELSE combined

\* the guard of line 235 left out
generateTarget_NoCanvasCheck(prev, closureTargets, canvas, rnd, t) ==
  IF Len(closureTargets) >= MaxTargets THEN prev
  ELSE CapTargets(prev \o NewTargets(rnd, t))

\* prev is the live list the functional updater receives, closureTargets the
\* list of the render the caller belongs to, canvas whether canvasRef.current
\* is set.
generateTarget(prev, closureTargets, canvas, rnd, t) ==
  IF ~canvas THEN prev
  ELSE IF Len(closureTargets) >= MaxTargets THEN prev
  ELSE CapTargets(prev \o NewTargets(rnd, t))

\* canvasRef.current: the game-canvas div is mounted exactly while the
\* play-area branch is rendered (lines 753-779).
canvasRef == isGameStarted

----------------------------------------------------------------------------
(* Date.now()                                                              *)

\* The value a Date.now() call gives in the current event: every event
\* happens later than the last one that read the clock, by more than the ids
\* of one generateTarget call spread.
DateNow == now + MaxFanOut

\* The values Date.now() can give in a click handler.  Input events that were
\* queued while the browser was busy are dispatched back to back: a click
\* that is handled right after the start, whose render created the first
\* targets, can read the same millisecond as that render or the next one.
ClickTimes ==
  IF ev.op = "startGame" THEN {now, now + 1, DateNow} ELSE {DateNow}

\* reads: the event calls Date.now()
ReadClock(reads) == now' = IF reads THEN DateNow ELSE now

----------------------------------------------------------------------------
(* Effects, lines 456-468 *)

\* lines 459-460: timeLeft <= sessionDuration * 0.75
IntenseThreshold(tl, dur) == tl * 4 <= dur * 3

\* the effect of lines 464-468 left out
SelfHeals_Never(started, tgts) == FALSE

\* line 465
SelfHeals(started, tgts) == started /\ Len(tgts) = 0

\* The render that follows a handler and the effects of that render.  started,
\* tgts, tl, dur are the state after the handler; intense is isIntenseMode of
\* that render, which is what the generateTarget of the self-heal effect reads;
\* t is Date.now().
RenderEffects(started, tgts, intense, tl, dur, t) ==
  /\ isIntenseMode' = IF started THEN IntenseThreshold(tl, dur) ELSE intense
  /\ IF SelfHeals(started, tgts)
       THEN \E rnd \in Rnd(intense) :
              targets' = generateTarget(tgts, tgts, started, rnd, t)
       ELSE targets' = tgts

----------------------------------------------------------------------------
(* saveGameRecord, lines 484-509 *)

\* the ratio of line 489 without the factor 100
Accuracy_Unscaled(stats) ==
  IF stats.totalClicks > 0
    THEN Frac(stats.accurateClicks, stats.totalClicks)
    ELSE Frac(0, 1)

\* lines 489, 597-601 and 763-767
Accuracy(stats) ==
  IF stats.totalClicks > 0
    THEN Frac(stats.accurateClicks * 100, stats.totalClicks)
    ELSE Frac(0, 1)

\* lines 485-496.  cl is the closure (score, gameStats, sessionDuration) of the
\* render that created this saveGameRecord.  g_session is history: the
\* session being finalized.
MakeRecord(cl, t, fin) ==
  [id |-> t,
   score |-> cl.score,
   accuracy |-> Accuracy(cl.gameStats),
   averageReactionTime |-> cl.gameStats.averageReactionTime,
   totalDistance |-> cl.gameStats.totalDistance,
   clicksPerSecond |-> Frac(cl.gameStats.accurateClicks, cl.sessionDuration),
   sessionDuration |-> cl.sessionDuration,
   totalClicks |-> cl.gameStats.totalClicks,
   accurateClicks |-> cl.gameStats.accurateClicks,
   g_session |-> fin]

\* line 505: a stable sort, descending by score
RECURSIVE InsertByScore(_, _)
InsertByScore(sorted, r) ==
  IF sorted = <<>> THEN <<r>>
  ELSE IF Head(sorted).score >= r.score
    THEN <<Head(sorted)>> \o InsertByScore(Tail(sorted), r)
    ELSE <<r>> \o sorted

\* the sort left out
SortByScore_Unsorted(recs) == recs

RECURSIVE SortByScore(_)
SortByScore(recs) ==
  IF recs = <<>> THEN <<>>
  ELSE InsertByScore(SortByScore(SubSeq(recs, 1, Len(recs) - 1)), recs[Len(recs)])

\* JSON.stringify (line 508) writes a number that is not finite as null; the
\* other values of a record are written as they are.
JSONNull == "null"
JSONNumber(f) == IF f.den = 0 THEN JSONNull ELSE f
JSONRecord(r) ==
  [r EXCEPT !.accuracy = JSONNumber(@),
            !.averageReactionTime = JSONNumber(@),
            !.clicksPerSecond = JSONNumber(@)]

\* (v ranges over a singleton so that recs is evaluated once)
JSONStringify(recs) ==
  CHOOSE text \in {[k \in 1..Len(v) |-> JSONRecord(v[k])] : v \in {recs}} : TRUE

\* JSON.parse (lines 499, 512, 517) of a text that JSON.stringify wrote
JSONParse(text) == text

\* lines 498-508
saveGameRecord(recs, cl, t, fin) ==
  JSONStringify(SortByScore(Append(JSONParse(recs), MakeRecord(cl, t, fin))))

\* lines 516-518
getAllRecords(store) == JSONParse(store)

\* line 511: the default of limit
TopLimit == 10

\* lines 511-514: records.slice(0, limit)
getTopRecords(store, limit) ==
  LET records == JSONParse(store)
  IN SubSeq(records, 1, IF limit < Len(records) THEN limit ELSE Len(records))

\* line 522: the number of games of the trend chart
ChartGames == 10

\* lines 521-522: getAllRecords().slice(-10), the records the chart of
\* getChartData plots, in the order it plots them
lastTenGames(store) ==
  LET records == getAllRecords(store)
  IN SubSeq(records,
            IF Len(records) > ChartGames THEN Len(records) - ChartGames + 1 ELSE 1,
            Len(records))

RECURSIVE SaveTimes(_, _, _, _, _)
SaveTimes(n, recs, cl, t, fin) ==
  IF n = 0 THEN recs ELSE SaveTimes(n - 1, saveGameRecord(recs, cl, t, fin), cl, t, fin)

\* What the handlers of the current render see (score, gameStats,
\* sessionDuration of lines 121-125).
CurrentClosure ==
  [score |-> score, gameStats |-> gameStats, sessionDuration |-> sessionDuration]

\* History only: the session that finalization ends.
Finals == session

----------------------------------------------------------------------------
(* The state after the component has mounted, lines 119-145 *)

InitialCells ==
  /\ isGameStarted = FALSE
  /\ targets = <<>>
  /\ score = 0
  /\ sessionDuration = 15
  /\ timeLeft = 15
  /\ gameStats = InitialStats
  /\ showSummary = FALSE
  /\ timers = {}
  /\ timerRef = 0
  /\ totalReactionTimeRef = 0
  /\ isIntenseMode = FALSE
  /\ mouseSensitivity = 4
  /\ selectedCursor = "default"
  /\ selectedSound = "none"
  /\ dragTarget = <<>>
  /\ hitTimeouts = <<>>
  /\ gameRecords = <<>>
  /\ storageFails = FALSE
  /\ now = 0
  /\ mounted = TRUE
  /\ session = 0
  /\ ev = NoEvent

Init == InitialCells /\ inputs = 0

----------------------------------------------------------------------------
(* Settings panel, lines 695-750: rendered when no session runs and the    *)
(* summary is not shown                                                    *)

\* the settings panel rendered whatever the phase
SetupShown_Always == TRUE

SetupShown == ~isGameStarted /\ ~showSummary

\* line 701
SetSessionDuration(d) ==
  /\ mounted
  /\ SetupShown
  /\ d # sessionDuration
  /\ inputs < MaxInputs
  /\ inputs' = inputs + 1
  /\ sessionDuration' = d
  /\ ev' = Event("setSessionDuration", 0, session)
  /\ UNCHANGED <<isGameStarted, targets, score, timeLeft, gameStats, showSummary,
                 timers, timerRef, totalReactionTimeRef, isIntenseMode,
                 mouseSensitivity, hitTimeouts, gameRecords, now,
                 session>>
  /\ UNCHANGED <<mounted, storageFails>>
  /\ UNCHANGED <<selectedCursor, selectedSound, dragTarget>>

\* line 723
SetMouseSensitivity(s) ==
  /\ mounted
  /\ SetupShown
  /\ s # mouseSensitivity
  /\ inputs < MaxInputs
  /\ inputs' = inputs + 1
  /\ mouseSensitivity' = s
  /\ ev' = Event("setMouseSensitivity", 0, session)
  /\ UNCHANGED <<isGameStarted, targets, score, sessionDuration, timeLeft,
                 gameStats, showSummary, timers, timerRef, totalReactionTimeRef,
                 isIntenseMode, hitTimeouts, gameRecords, now, session>>
  /\ UNCHANGED <<mounted, storageFails>>
  /\ UNCHANGED <<selectedCursor, selectedSound, dragTarget>>

\* line 712
SetSelectedCursor(c) ==
  /\ mounted
  /\ SetupShown
  /\ c # selectedCursor
  /\ inputs < MaxInputs
  /\ inputs' = inputs + 1
  /\ selectedCursor' = c
  /\ ev' = Event("setSelectedCursor", 0, session)
  /\ UNCHANGED <<isGameStarted, targets, score, sessionDuration, timeLeft,
                 gameStats, showSummary, timers, timerRef, totalReactionTimeRef,
                 isIntenseMode, mouseSensitivity, hitTimeouts, gameRecords, now,
                 session, mounted, storageFails, selectedSound, dragTarget>>

\* line 734
SetSelectedSound(o) ==
  /\ mounted
  /\ SetupShown
  /\ o # selectedSound
  /\ inputs < MaxInputs
  /\ inputs' = inputs + 1
  /\ selectedSound' = o
  /\ ev' = Event("setSelectedSound", 0, session)
  /\ UNCHANGED <<isGameStarted, targets, score, sessionDuration, timeLeft,
                 gameStats, showSummary, timers, timerRef, totalReactionTimeRef,
                 isIntenseMode, mouseSensitivity, hitTimeouts, gameRecords, now,
                 session, mounted, storageFails, selectedCursor, dragTarget>>

\* line 615: the OK button of the summary
DismissSummary ==
  /\ mounted
  /\ ~isGameStarted /\ showSummary
  /\ showSummary' = FALSE
  /\ ev' = Event("dismissSummary", 0, session)
  /\ UNCHANGED <<isGameStarted, targets, score, sessionDuration, timeLeft,
                 gameStats, timers, timerRef, totalReactionTimeRef,
                 isIntenseMode, mouseSensitivity, hitTimeouts, gameRecords, now, session, inputs>>
  /\ UNCHANGED <<mounted, storageFails>>
  /\ UNCHANGED <<selectedCursor, selectedSound, dragTarget>>

----------------------------------------------------------------------------
(* startGame, lines 414-439 (the start-button, line 749)                   *)

\* lines 430-438: the interval and the closure its callback keeps
NewTimer(id, cl) == [id |-> id, closure |-> cl]

StartGame ==
  /\ mounted
  /\ SetupShown
  /\ inputs < MaxInputs
  /\ inputs' = inputs + 1
  /\ isGameStarted' = TRUE
  /\ score' = 0
  /\ timeLeft' = sessionDuration
  /\ showSummary' = FALSE
  /\ gameStats' = InitialStats
  /\ totalReactionTimeRef' = 0
  /\ timerRef' = timerRef + 1
  /\ timers' = timers \cup {NewTimer(timerRef + 1, CurrentClosure)}
  /\ session' = session + 1
  /\ ev' = Event("startGame", 0, session + 1)
  \* line 428: generateTarget() of the render in which Start was clicked
  /\ \E rnd \in Rnd(isIntenseMode) :
       LET tgts == generateTarget(targets, targets, canvasRef, rnd, DateNow)
       IN /\ RenderEffects(TRUE, tgts, isIntenseMode, sessionDuration,
                           sessionDuration, DateNow)
          /\ ReadClock(canvasRef \/ SelfHeals(TRUE, tgts))
  /\ UNCHANGED <<sessionDuration, mouseSensitivity, hitTimeouts, gameRecords>>
  /\ UNCHANGED <<mounted, storageFails>>
  /\ UNCHANGED <<selectedCursor, selectedSound, dragTarget>>

----------------------------------------------------------------------------
(* endGame, lines 441-449, as called n times in one event with closure cl  *)

\* clearInterval left out
ClearInterval_Keep(tms, ref) == tms

\* line 442-444: clearInterval(timerRef.current)
ClearInterval(tms, ref) == {x \in tms : x.id # ref}

\* saveGameRecord throws at line 499 (getItem or JSON.parse) or at line 508
\* (setItem) and nothing catches it: the statements of endGame and of its
\* caller that follow the call are not run.
EndGame(cl, n, summary) ==
  /\ timers' = ClearInterval(timers, timerRef)
  /\ isGameStarted' = FALSE
  /\ IF storageFails
       THEN UNCHANGED <<gameRecords, showSummary>>
       ELSE /\ gameRecords' = SaveTimes(n, gameRecords, cl, DateNow, Finals)
            /\ showSummary' = summary
  /\ RenderEffects(FALSE, <<>>, isIntenseMode, timeLeft', sessionDuration, DateNow)
  /\ ReadClock(TRUE)

\* The exception is thrown while React runs the updater of line 431, that is
\* while it renders: no error boundary catches it, React unmounts the tree
\* and the unmount cleanup of lines 470-476 runs.
RenderThrows ==
  /\ mounted' = FALSE
  /\ timers' = ClearInterval(timers, timerRef)
  /\ ReadClock(TRUE)
  /\ UNCHANGED <<isGameStarted, targets, timeLeft, showSummary, isIntenseMode,
                 gameRecords>>

\* lines 451-454 (the stop-button, line 756)
StopGame ==
  /\ mounted
  /\ isGameStarted
  /\ timeLeft' = timeLeft
  /\ EndGame(CurrentClosure, 1, FALSE)
  /\ ev' = Event("stopGame", 0, session)
  /\ UNCHANGED <<score, sessionDuration, gameStats, timerRef,
                 totalReactionTimeRef, mouseSensitivity, hitTimeouts, session,
                 inputs>>
  /\ UNCHANGED <<mounted, storageFails>>
  /\ UNCHANGED <<selectedCursor, selectedSound, dragTarget>>

----------------------------------------------------------------------------
(* The timeouts of a resolution                                            *)

\* line 327 and line 288: the delays chosen by isIntenseMode
SettleDelay(intense) == IF intense THEN 300 ELSE 500
ParticleLife(intense) == IF intense THEN 400 ELSE 800

\* line 267
ParticleCount(intense) == IF intense THEN 16 ELSE 12

\* One resolution (lines 319-327) schedules two callbacks at the same instant:
\* the particle removal (lines 286-288) and the settle callback (lines
\* 324-327), which is due first.  settled says the settle callback has fired;
\* seen says a countdown tick has fired since; sess is history (the session of
\* the resolution).
NewHitTimeout(tid, intense, s) ==
  [id |-> tid, delay |-> SettleDelay(intense), life |-> ParticleLife(intense),
   n |-> ParticleCount(intense), settled |-> FALSE, seen |-> FALSE,
   sess |-> s]

\* line 137: the particle state holds the batches not yet removed
particles == [k \in 1..Len(hitTimeouts) |-> hitTimeouts[k].n]

MarkSeen(q) == [k \in 1..Len(q) |-> [q[k] EXCEPT !.seen = TRUE]]
NoneSeen(q) == \A k \in 1..Len(q) : ~q[k].seen

RemoveAt(q, j) == [k \in 1..(Len(q) - 1) |-> IF k < j THEN q[k] ELSE q[k + 1]]

\* setTimeout callbacks fire in the order of their due times: a callback
\* scheduled later fires first only if its delay is shorter.
SettleMayFire(q, j) ==
  /\ ~q[j].settled
  /\ \A k \in 1..(j - 1) : ~q[k].settled => q[k].delay > q[j].delay

ParticlesMayFire(q, j) ==
  /\ q[j].settled
  /\ \A k \in 1..(j - 1) : q[k].life > q[j].life

----------------------------------------------------------------------------
(* The interval callback, lines 430-438                                    *)

\* React may run a state updater function more than once for one update (it
\* does so twice under StrictMode): the updater of line 431 calls endGame.
UpdaterCalls == {1, 2}

\* the countdown not moving
Countdown_Stuck(prev) == prev

\* line 436: return prev - 1
Countdown(prev) == prev - 1

Tick(tm) ==
  /\ mounted
  /\ tm \in timers
  /\ NoneSeen(hitTimeouts)
  /\ hitTimeouts' = MarkSeen(hitTimeouts)
  /\ IF timeLeft <= 1
       THEN IF storageFails
              THEN /\ RenderThrows
                   /\ ev' = Event("renderThrows", 0, session)
              ELSE /\ timeLeft' = 0
                   /\ \E n \in UpdaterCalls : EndGame(tm.closure, n, TRUE)
                   /\ ev' = Event("timeout", 0, session)
                   /\ UNCHANGED mounted
       ELSE /\ timeLeft' = Countdown(timeLeft)
            /\ RenderEffects(isGameStarted, targets, isIntenseMode, timeLeft',
                             sessionDuration, DateNow)
            /\ ReadClock(SelfHeals(isGameStarted, targets))
            /\ ev' = Event("tick", 0, session)
            /\ UNCHANGED <<isGameStarted, gameRecords, showSummary, timers,
                           mounted>>
  /\ UNCHANGED <<score, sessionDuration, gameStats, timerRef,
                 totalReactionTimeRef, mouseSensitivity, session, inputs,
                 storageFails>>
  /\ UNCHANGED <<selectedCursor, selectedSound, dragTarget>>

----------------------------------------------------------------------------
(* handleTargetClick, lines 291-330, and handleCanvasClick, lines 332-339  *)

\* line 292: targets.find(t => t.id === targetId)
FindTarget(tgts, tid) ==
  tgts[CHOOSE k \in 1..Len(tgts) :
         tgts[k].id = tid /\ \A m \in 1..(k - 1) : tgts[m].id # tid]

\* a find that falls back to the first target when none has the id
find_OrFirst(tgts, tid) ==
  IF \E k \in 1..Len(tgts) : tgts[k].id = tid THEN <<FindTarget(tgts, tid)>>
  ELSE IF tgts # <<>> THEN <<tgts[1]>>
  ELSE <<>>

\* lines 292, 343, 368: the result of find, <<>> when it is undefined
find(tgts, tid) ==
  IF \E k \in 1..Len(tgts) : tgts[k].id = tid THEN <<FindTarget(tgts, tid)>>
  ELSE <<>>

\* The target ids with which the target handlers are called: the ids of the
\* rendered targets, the ids of targets already removed by their settle
\* callback, and an id no target ever had.
NoTargetId == 0
RemovedIds == {hitTimeouts[k].id : k \in {j \in 1..Len(hitTimeouts) : hitTimeouts[j].settled}}
NotLiveIds ==
  (RemovedIds \cup {NoTargetId}) \ {targets[k].id : k \in 1..Len(targets)}

\* lines 782-811: a path target is rendered with onMouseDown, every other
\* target with onClick
PathTargetIds ==
  {targets[k].id : k \in {j \in 1..Len(targets) : targets[j].isPathTarget}}
TargetIds ==
  {targets[k].id : k \in {j \in 1..Len(targets) : ~targets[j].isPathTarget}}
    \cup NotLiveIds

\* the branch of lines 295-304 never taken
NeedsSecondClick_Never(target) == FALSE

\* lines 295-298: a double-click target that has not had its first click
NeedsSecondClick(target) ==
  target.requiresDoubleClick /\ target.clickCount + 1 < 2

\* lines 299-301
MarkClicked(tgts, tid, cnt) ==
  [k \in 1..Len(tgts) |->
     IF tgts[k].id = tid THEN [tgts[k] EXCEPT !.clickCount = cnt] ELSE tgts[k]]

\* the target removed at the click, not flagged
MarkHit_Removes(tgts, tid) == SelectSeq(tgts, LAMBDA t : t.id # tid)

\* lines 320-322
MarkHit(tgts, tid) ==
  [k \in 1..Len(tgts) |->
     IF tgts[k].id = tid THEN [tgts[k] EXCEPT !.isHit = TRUE] ELSE tgts[k]]

\* the average taken over the count before the increment
RecordHit_PreCount(stats, refSum) ==
  [stats EXCEPT !.accurateClicks = stats.accurateClicks + 1,
                !.averageReactionTime = Frac(refSum, stats.accurateClicks)]

\* lines 309-313, with refSum the value of totalReactionTimeRef.current
RecordHit(stats, refSum) ==
  [stats EXCEPT !.accurateClicks = stats.accurateClicks + 1,
                !.averageReactionTime = Frac(refSum, stats.accurateClicks + 1)]

\* the canvas handler not reached by a click
handleCanvasClick_Ignore(stats, closureTargets) == stats

\* lines 332-339, with closureTargets the targets of the handler's render
handleCanvasClick(stats, closureTargets) ==
  IF Len(closureTargets) = 0 THEN stats
  ELSE [stats EXCEPT !.totalClicks = stats.totalClicks + 1]

\* handleTargetClick(tid).  A click on a rendered target div (line 809) then
\* bubbles to the game-canvas (line 775); a call with an id that find does
\* not match comes from no rendered div and returns at line 293.
TargetClick(tid) ==
  /\ mounted
  /\ isGameStarted
  /\ inputs < MaxInputs
  /\ tid \in TargetIds
  /\ \E t \in ClickTimes :
     LET found == find(targets, tid)
     IN IF found = <<>>
          THEN /\ t = DateNow
               /\ ev' = Event("noMatch", tid, session)
               /\ UNCHANGED <<targets, isIntenseMode, gameStats,
                              totalReactionTimeRef, hitTimeouts, now>>
          ELSE IF NeedsSecondClick(found[1])
          THEN /\ t = DateNow
               /\ RenderEffects(isGameStarted,
                                MarkClicked(targets, tid, found[1].clickCount + 1),
                                isIntenseMode, timeLeft, sessionDuration, t)
               /\ gameStats' = handleCanvasClick(gameStats, targets)
               /\ ev' = Event("firstClick", tid, session)
               /\ UNCHANGED <<totalReactionTimeRef, hitTimeouts, now>>
          ELSE /\ totalReactionTimeRef' =
                    totalReactionTimeRef + (t - found[1].createdAt)
               /\ gameStats' =
                    handleCanvasClick(RecordHit(gameStats, totalReactionTimeRef'),
                                      targets)
               /\ hitTimeouts' =
                    Append(hitTimeouts,
                           NewHitTimeout(tid, isIntenseMode, session))
               /\ \E rnd \in Rnd(isIntenseMode) :
                    RenderEffects(isGameStarted,
                                  generateTarget(MarkHit(targets, tid), targets,
                                                 canvasRef, rnd, t),
                                  isIntenseMode, timeLeft, sessionDuration, t)
               /\ now' = t
               /\ ev' = Event("resolve", tid, session)
  /\ inputs' = inputs + 1
  /\ UNCHANGED <<isGameStarted, score, sessionDuration, timeLeft, showSummary,
                 timers, timerRef, mouseSensitivity, gameRecords, session>>
  /\ UNCHANGED <<mounted, storageFails>>
  /\ UNCHANGED <<selectedCursor, selectedSound, dragTarget>>

\* A click on the game-canvas that hits no target div (line 775)
CanvasClick ==
  /\ mounted
  /\ isGameStarted
  /\ inputs < MaxInputs
  /\ gameStats' = handleCanvasClick(gameStats, targets)
  /\ inputs' = inputs + 1
  /\ RenderEffects(isGameStarted, targets, isIntenseMode, timeLeft,
                   sessionDuration, DateNow)
  /\ ReadClock(SelfHeals(isGameStarted, targets))
  /\ ev' = Event("miss", 0, session)
  /\ UNCHANGED <<isGameStarted, score, sessionDuration, timeLeft, showSummary,
                 timers, timerRef, totalReactionTimeRef, mouseSensitivity,
                 hitTimeouts, gameRecords, session>>
  /\ UNCHANGED <<mounted, storageFails>>
  /\ UNCHANGED <<selectedCursor, selectedSound, dragTarget>>

----------------------------------------------------------------------------
(* Dragging a path target: handleTargetMouseDown, lines 341-352,           *)
(* handleMouseMove, lines 354-403, handleMouseUp, lines 405-412            *)

\* e.movementX, e.movementY of the samples explored; the pointer is taken to
\* have moved by e.movementX since lastMousePosRef was set (lines 347, 401)
Movements == {<<3, 4>>}

\* Math.sqrt on the perfect squares the samples give
Sqrt(n) == CHOOSE r \in 0..n : r * r = n

\* lines 357-362, sens in quarters, the result in quarter pixels
MoveDistance(mv, sens) ==
  Sqrt((mv[1] * sens) * (mv[1] * sens) + (mv[2] * sens) * (mv[2] * sens))

\* lines 325 and 382
RemoveTarget(tgts, tid) == SelectSeq(tgts, LAMBDA t : t.id # tid)

\* lines 349-351 and 408-410
SetDragging(tgts, tid, b) ==
  [k \in 1..Len(tgts) |->
     IF tgts[k].id = tid THEN [tgts[k] EXCEPT !.isDragging = b] ELSE tgts[k]]

\* lines 391-398 (the position along the path is not kept)
SetProgress(tgts, tid, p) ==
  [k \in 1..Len(tgts) |->
     IF tgts[k].id = tid THEN [tgts[k] EXCEPT !.progress = p] ELSE tgts[k]]

\* lines 375-376: Math.max(0, Math.min(1, progress + dx / pathLength)), as a
\* fraction with a positive denominator
NewProgress(target, dx) ==
  LET len == IF target.pathLength < 0 THEN -target.pathLength ELSE target.pathLength
      d == IF target.pathLength < 0 THEN -dx ELSE dx
      sum == Frac(target.progress.num * len + d * target.progress.den,
                  target.progress.den * len)
  IN IF sum.num < 0 THEN Frac(0, 1)
     ELSE IF sum.num > sum.den THEN Frac(1, 1)
     ELSE sum

\* lines 341-352, called from the div of a rendered path target (line 799) or
\* with an id that is not live
TargetMouseDown(tid) ==
  /\ mounted
  /\ isGameStarted
  /\ inputs < MaxInputs
  /\ tid \in PathTargetIds \cup NotLiveIds
  /\ LET found == find(targets, tid)
     IN IF found = <<>> \/ ~found[1].isPathTarget
          THEN UNCHANGED <<targets, dragTarget, isIntenseMode, now>>
          ELSE /\ dragTarget' = found
               /\ RenderEffects(isGameStarted, SetDragging(targets, tid, TRUE),
                                isIntenseMode, timeLeft, sessionDuration, DateNow)
               /\ ReadClock(FALSE)
  /\ inputs' = inputs + 1
  /\ ev' = Event("mouseDown", tid, session)
  /\ UNCHANGED <<isGameStarted, score, sessionDuration, timeLeft, gameStats,
                 showSummary, timers, timerRef, totalReactionTimeRef,
                 mouseSensitivity, hitTimeouts, gameRecords, session>>
  /\ UNCHANGED <<mounted, storageFails, selectedCursor, selectedSound>>

MouseMove(mv) ==
  /\ mounted
  /\ isGameStarted
  /\ inputs < MaxInputs
  /\ gameStats' = [gameStats EXCEPT !.totalDistance =
                     gameStats.totalDistance + MoveDistance(mv, mouseSensitivity)]
  /\ inputs' = inputs + 1
  /\ LET dragged == IF dragTarget # <<>> /\ dragTarget[1].isPathTarget
                      THEN find(targets, dragTarget[1].id)
                      ELSE <<>>
     IN IF dragged = <<>> \/ dragged[1].pathLength = 0 \/ ~dragged[1].isDragging
          \* lines 366 and 369: no drag is going on
          THEN /\ RenderEffects(isGameStarted, targets, isIntenseMode, timeLeft,
                                sessionDuration, DateNow)
               /\ ReadClock(SelfHeals(isGameStarted, targets))
               /\ ev' = Event("mouseMove", 0, session)
               /\ UNCHANGED <<score, hitTimeouts, dragTarget>>
          ELSE IF NewProgress(dragged[1], mv[1]).num >= NewProgress(dragged[1], mv[1]).den
          \* lines 378-385: the path is completed
          THEN /\ hitTimeouts' =
                    Append(hitTimeouts,
                           [NewHitTimeout(dragged[1].id, isIntenseMode, session)
                              EXCEPT !.settled = TRUE])
               /\ score' = score + 1
               /\ dragTarget' = <<>>
               /\ \E rnd \in Rnd(isIntenseMode) :
                    RenderEffects(isGameStarted,
                                  generateTarget(RemoveTarget(targets, dragged[1].id),
                                                 targets, canvasRef, rnd, DateNow),
                                  isIntenseMode, timeLeft, sessionDuration, DateNow)
               /\ ReadClock(TRUE)
               /\ ev' = Event("pathComplete", dragged[1].id, session)
          \* lines 387-398
          ELSE /\ RenderEffects(isGameStarted,
                                SetProgress(targets, dragged[1].id,
                                            NewProgress(dragged[1], mv[1])),
                                isIntenseMode, timeLeft, sessionDuration, DateNow)
               /\ ReadClock(FALSE)
               /\ ev' = Event("drag", dragged[1].id, session)
               /\ UNCHANGED <<score, hitTimeouts, dragTarget>>
  /\ UNCHANGED <<isGameStarted, sessionDuration, timeLeft, showSummary,
                 timers, timerRef, totalReactionTimeRef, mouseSensitivity,
                 gameRecords, session>>
  /\ UNCHANGED <<mounted, storageFails, selectedCursor, selectedSound>>

\* lines 405-412, from onMouseUp and onMouseLeave of the game-canvas (lines
\* 777-778)
MouseUp ==
  /\ mounted
  /\ isGameStarted
  /\ inputs < MaxInputs
  /\ IF dragTarget # <<>>
       THEN /\ dragTarget' = <<>>
            /\ RenderEffects(isGameStarted,
                             SetDragging(targets, dragTarget[1].id, FALSE),
                             isIntenseMode, timeLeft, sessionDuration, DateNow)
            /\ ReadClock(FALSE)
       ELSE UNCHANGED <<targets, dragTarget, isIntenseMode, now>>
  /\ inputs' = inputs + 1
  /\ ev' = Event("mouseUp", 0, session)
  /\ UNCHANGED <<isGameStarted, score, sessionDuration, timeLeft, gameStats,
                 showSummary, timers, timerRef, totalReactionTimeRef,
                 mouseSensitivity, hitTimeouts, gameRecords, session>>
  /\ UNCHANGED <<mounted, storageFails, selectedCursor, selectedSound>>

----------------------------------------------------------------------------
(* Timeout callbacks                                                       *)

\* lines 324-327: the settle callback of the resolution of target e.id
SettleTimeout(j) ==
  /\ mounted
  /\ j \in 1..Len(hitTimeouts)
  /\ SettleMayFire(hitTimeouts, j)
  /\ LET e == hitTimeouts[j]
         tgts == RemoveTarget(targets, e.id)
     IN /\ score' = score + 1
        /\ RenderEffects(isGameStarted, tgts, isIntenseMode, timeLeft,
                         sessionDuration, DateNow)
        /\ ReadClock(SelfHeals(isGameStarted, tgts))
        /\ ev' = Event("settle", e.id, e.sess)
  /\ hitTimeouts' = [hitTimeouts EXCEPT ![j].settled = TRUE]
  /\ UNCHANGED <<isGameStarted, sessionDuration, timeLeft, gameStats,
                 showSummary, timers, timerRef, totalReactionTimeRef,
                 mouseSensitivity, gameRecords, session, inputs>>
  /\ UNCHANGED <<mounted, storageFails>>
  /\ UNCHANGED <<selectedCursor, selectedSound, dragTarget>>

\* lines 286-288: the callback that removes one batch of particles
ParticleTimeout(j) ==
  /\ mounted
  /\ j \in 1..Len(hitTimeouts)
  /\ ParticlesMayFire(hitTimeouts, j)
  /\ hitTimeouts' = RemoveAt(hitTimeouts, j)
  /\ RenderEffects(isGameStarted, targets, isIntenseMode, timeLeft,
                   sessionDuration, DateNow)
  /\ ReadClock(SelfHeals(isGameStarted, targets))
  /\ ev' = Event("particleTimeout", 0, hitTimeouts[j].sess)
  /\ UNCHANGED <<isGameStarted, score, sessionDuration, timeLeft, gameStats,
                 showSummary, timers, timerRef, totalReactionTimeRef,
                 mouseSensitivity, gameRecords, session, inputs>>
  /\ UNCHANGED <<mounted, storageFails>>
  /\ UNCHANGED <<selectedCursor, selectedSound, dragTarget>>

----------------------------------------------------------------------------
(* Unmount, lines 470-476: the cleanup of the mount effect.  The setters   *)
(* of an unmounted component do nothing, so the timeout callbacks that     *)
(* fire afterwards change no state.                                        *)

Unmount ==
  /\ mounted
  /\ inputs < MaxInputs
  /\ inputs' = inputs + 1
  /\ mounted' = FALSE
  /\ timers' = ClearInterval(timers, timerRef)
  /\ ev' = Event("unmount", 0, session)
  /\ UNCHANGED <<isGameStarted, targets, score, sessionDuration, timeLeft,
                 gameStats, showSummary, timerRef, totalReactionTimeRef,
                 isIntenseMode, mouseSensitivity, hitTimeouts, gameRecords, now,
                 session, storageFails>>
  /\ UNCHANGED <<selectedCursor, selectedSound, dragTarget>>

----------------------------------------------------------------------------
(* The environment: from now on localStorage throws (storage disabled or   *)
(* full), or the item 'gameRecords' holds text that is not JSON.           *)

StorageFails ==
  /\ mounted
  /\ ~storageFails
  /\ inputs < MaxInputs
  /\ inputs' = inputs + 1
  /\ storageFails' = TRUE
  /\ ev' = Event("storageFails", 0, session)
  /\ UNCHANGED <<isGameStarted, targets, score, sessionDuration, timeLeft,
                 gameStats, showSummary, timers, timerRef, totalReactionTimeRef,
                 isIntenseMode, mouseSensitivity, hitTimeouts, gameRecords, now,
                 mounted, session>>
  /\ UNCHANGED <<selectedCursor, selectedSound, dragTarget>>

----------------------------------------------------------------------------

Next ==
  \/ \E d \in DurationChoices : SetSessionDuration(d)
  \/ \E s \in SensitivityChoices : SetMouseSensitivity(s)
  \/ \E c \in CursorChoices : SetSelectedCursor(c)
  \/ \E o \in SoundChoices : SetSelectedSound(o)
  \/ StartGame
  \/ StopGame
  \/ DismissSummary
  \/ \E tm \in timers : Tick(tm)
  \/ \E tid \in TargetIds : TargetClick(tid)
  \/ CanvasClick
  \/ \E tid \in PathTargetIds \cup NotLiveIds : TargetMouseDown(tid)
  \/ \E mv \in Movements : MouseMove(mv)
  \/ MouseUp
  \/ \E j \in 1..Len(hitTimeouts) : SettleTimeout(j)
  \/ \E j \in 1..Len(hitTimeouts) : ParticleTimeout(j)
  \/ Unmount
  \/ StorageFails

Spec == Init /\ [][Next]_vars

\* The events of the sessions of one mounted component, with the sensitivity
\* left at its default.
NextSessions ==
  \/ \E d \in DurationChoices : SetSessionDuration(d)
  \/ StartGame
  \/ StopGame
  \/ DismissSummary
  \/ \E tm \in timers : Tick(tm)
  \/ \E tid \in TargetIds : TargetClick(tid)
  \/ CanvasClick
  \/ \E mv \in Movements : MouseMove(mv)
  \/ \E j \in 1..Len(hitTimeouts) : SettleTimeout(j)
  \/ \E j \in 1..Len(hitTimeouts) : ParticleTimeout(j)

\* The browser keeps running the timer callbacks that are due: the interval
\* callback while its interval is live, the timeout callbacks once scheduled.
TimerCallback ==
  \/ \E tm \in timers : Tick(tm)
  \/ \E j \in 1..Len(hitTimeouts) : SettleTimeout(j)
  \/ \E j \in 1..Len(hitTimeouts) : ParticleTimeout(j)

TimersFire == WF_vars(TimerCallback)

\* The exploration under fairness starts with one input of the budget spent.
InitFair == InitialCells /\ inputs = 1

SpecFair == InitFair /\ [][NextSessions]_vars /\ TimersFire

----------------------------------------------------------------------------
(* Properties                                                              *)

RecordsOf(recs, s) == {k \in 1..Len(recs) : recs[k].g_session = s}
ClickOps == {"firstClick", "resolve", "miss"}
Live(tgts, tid) == {k \in 1..Len(tgts) : tgts[k].id = tid}

\* C1: the live-target set never holds more than 3 targets.
C1_AtMostThreeTargets == Len(targets) <= MaxTargets

C1_Witness == Len(targets) = MaxTargets /\ ev.op = "resolve"

\* C2: while a session runs with time remaining, the live-target set is not
\* empty once an event has settled.
C2_NeverEmptyWhileRunning ==
  isGameStarted /\ timeLeft > 0 => Len(targets) > 0

C2_Witness ==
  isGameStarted /\ timeLeft > 0 /\ ev.op = "startGame" /\ Len(targets) > 0

\* C3: ending a session appends exactly one record for that session, whatever
\* the sequence of end events: an ended session has one record, a running one
\* has none.
C3_OneRecordPerSession ==
  \A s \in 1..session :
    Cardinality(RecordsOf(gameRecords, s)) =
      IF s = session /\ isGameStarted THEN 0 ELSE 1

\* C4: the record written at the end of a session holds the score and the
\* click counts, reaction average and distance that are current when the
\* session ends, on timeout as on manual stop.
C4_RecordHoldsFinalValues ==
  [][ev'.op \in {"timeout", "stopGame"} =>
       \A k \in RecordsOf(gameRecords', session) :
         /\ gameRecords'[k].score = score
         /\ gameRecords'[k].totalClicks = gameStats.totalClicks
         /\ gameRecords'[k].accurateClicks = gameStats.accurateClicks
         /\ gameRecords'[k].averageReactionTime = gameStats.averageReactionTime
         /\ gameRecords'[k].totalDistance = gameStats.totalDistance]_vars

\* C5: while a session runs, intense mode is on exactly when the remaining
\* time is at most a quarter of the session duration.
C5_IntenseInLastQuarter ==
  isGameStarted => (isIntenseMode <=> timeLeft * 4 <= sessionDuration)

\* C6: a target is resolved at most once: no click resolves a target that is
\* already hit, so such a click adds no accurate click, no reaction time and
\* schedules no further score increment.
C6_ResolvedAtMostOnce ==
  [][ev'.op = "resolve" =>
       /\ \A k \in Live(targets, ev'.id) : ~targets[k].isHit
       /\ \A j \in 1..Len(hitTimeouts) :
            hitTimeouts[j].id = ev'.id => hitTimeouts[j].settled]_vars

\* C7: a settle-delay callback scheduled in one session changes neither the
\* score nor the live-target set of a later session.
C7_SettleStaysInItsSession ==
  [][ev'.op = "settle" /\ ev'.sess # session =>
       score' = score /\ targets' = targets]_vars

\* C8: the first click on a double-click target leaves it live and not hit with
\* clickCount 1 and changes neither the score, the accurate clicks nor the
\* reaction sum; only a click on a target with clickCount 1 resolves it; the
\* stored clickCount is always 0 or 1.
C8_DoubleClickTargets ==
  [][
    /\ (ev'.op = "firstClick" =>
          /\ Live(targets', ev'.id) # {}
          /\ \A k \in Live(targets', ev'.id) :
               targets'[k].clickCount = 1 /\ ~targets'[k].isHit
          /\ score' = score
          /\ gameStats'.accurateClicks = gameStats.accurateClicks
          /\ totalReactionTimeRef' = totalReactionTimeRef
          /\ hitTimeouts' = hitTimeouts)
    /\ (ev'.op = "resolve" =>
          \A k \in Live(targets, ev'.id) :
            targets[k].requiresDoubleClick => targets[k].clickCount = 1)
    /\ \A k \in 1..Len(targets') : targets'[k].clickCount \in {0, 1}
  ]_vars

C8_Witness ==
  /\ ev.op = "resolve"
  /\ \E k \in Live(targets, ev.id) :
       targets[k].requiresDoubleClick /\ targets[k].isHit

\* C9: totalClicks >= accurateClicks >= 0, and the accuracy, live and in every
\* record, is accurateClicks / totalClicks as a percentage between 0 and 100,
\* and 0 when totalClicks is 0.
IsAccuracyOf(a, acc, tot) ==
  /\ a.den > 0
  /\ 0 <= a.num /\ a.num <= 100 * a.den
  /\ IF tot = 0 THEN a.num = 0 ELSE FracEq(a, acc * 100, tot)

C9_AccuracyIsThePercentage ==
  /\ gameStats.totalClicks >= gameStats.accurateClicks
  /\ gameStats.accurateClicks >= 0
  /\ IsAccuracyOf(Accuracy(gameStats), gameStats.accurateClicks,
                  gameStats.totalClicks)
  /\ \A k \in 1..Len(gameRecords) :
       /\ gameRecords[k].totalClicks >= gameRecords[k].accurateClicks
       /\ gameRecords[k].accurateClicks >= 0
       /\ IsAccuracyOf(gameRecords[k].accuracy, gameRecords[k].accurateClicks,
                       gameRecords[k].totalClicks)

C9_Witness ==
  \E k \in 1..Len(gameRecords) :
    /\ gameRecords[k].accurateClicks > 0
    /\ gameRecords[k].totalClicks > gameRecords[k].accurateClicks

\* C10: while a session runs, every click in the play area, on a target or on
\* empty space, adds exactly 1 to totalClicks; a click on empty space changes
\* neither accurateClicks, the score nor the live-target set.
C10_EveryClickCounts ==
  [][ev'.op \in ClickOps /\ inputs' = inputs + 1 =>
       /\ gameStats'.totalClicks = gameStats.totalClicks + 1
       /\ (ev'.op = "miss" =>
             /\ gameStats'.accurateClicks = gameStats.accurateClicks
             /\ score' = score
             /\ targets' = targets)]_vars

C10_Witness ==
  /\ ev.op = "miss"
  /\ gameStats.totalClicks = 2
  /\ gameStats.accurateClicks = 1
  /\ Len(targets) > 1

TickOps == {"tick", "timeout"}
EndOps == {"timeout", "stopGame"}

\* C11: start sets the remaining time to the configured duration; each tick
\* lowers it by exactly 1 and it stays within 0..duration while the session
\* runs; the tick that brings it to 0 ends the session and runs the
\* finalization exactly once (one record is appended).
C11_CountdownContract ==
  [][
    /\ (ev'.op = "startGame" => isGameStarted' /\ timeLeft' = sessionDuration)
    /\ (ev'.op = "tick" =>
          isGameStarted' /\ timeLeft' = timeLeft - 1 /\ timeLeft' > 0)
    /\ (ev'.op = "timeout" =>
          /\ timeLeft = 1 /\ timeLeft' = 0
          /\ ~isGameStarted'
          /\ Len(gameRecords') = Len(gameRecords) + 1)
    /\ (isGameStarted' => 0 <= timeLeft' /\ timeLeft' <= sessionDuration')
  ]_vars

\* C12: once a session has ended or the component has unmounted, no countdown
\* tick fires: no interval is live, and every tick happens in a running
\* session of the mounted component.
C12_NoTickAfterEnd ==
  [][
    /\ (ev'.op \in TickOps => mounted /\ isGameStarted)
    /\ (~isGameStarted' \/ ~mounted' => timers' = {})
  ]_vars

C12_Witness ==
  ~mounted /\ isGameStarted /\ 0 < timeLeft /\ timeLeft < sessionDuration

Running == mounted /\ isGameStarted

\* C13: every started session eventually ends: when the timer callbacks that
\* are due keep being run, a running session eventually is no longer running,
\* whatever clicks, moves and callbacks are interleaved.
C13_SessionEventuallyEnds == Running ~> ~Running

C13_Witness == ev.op = "timeout" /\ ~isGameStarted /\ score > 0

\* C14: every resolution adds its reaction time (the time of the resolution
\* minus the target's createdAt) to the sum and 1 to accurateClicks, which no
\* other event but start changes; the average is the sum divided by the
\* count after the increment, and 0 when there was no hit.
C14_AverageReactionTime ==
  [][
    /\ (ev'.op = "resolve" =>
          /\ totalReactionTimeRef' = totalReactionTimeRef +
               (now' - FindTarget(targets, ev'.id).createdAt)
          /\ gameStats'.accurateClicks = gameStats.accurateClicks + 1)
    /\ (ev'.op = "startGame" =>
          gameStats'.accurateClicks = 0 /\ totalReactionTimeRef' = 0)
    /\ (ev'.op \notin {"resolve", "startGame"} =>
          /\ gameStats'.accurateClicks = gameStats.accurateClicks
          /\ totalReactionTimeRef' = totalReactionTimeRef)
    /\ gameStats'.averageReactionTime.den > 0
    /\ IF gameStats'.accurateClicks = 0
         THEN gameStats'.averageReactionTime.num = 0
         ELSE FracEq(gameStats'.averageReactionTime, totalReactionTimeRef',
                     gameStats'.accurateClicks)
  ]_vars

C14_Witness ==
  ev.op = "resolve" /\ gameStats.accurateClicks = 2 /\ totalReactionTimeRef > 0

\* C15: no resolution is lost: when a session is finalized, on timeout or on
\* manual stop, the score and the score written to the record equal the
\* number of resolutions of the session (its accurateClicks), also while a
\* settle delay is pending.
C15_ScoreCountsEveryResolution ==
  [][ev'.op \in EndOps =>
       /\ score = gameStats.accurateClicks
       /\ \A k \in RecordsOf(gameRecords', session) :
            gameRecords'[k].score = gameStats.accurateClicks]_vars

\* C16: manual stop happens only in a running session and finalizes like the
\* timeout: afterwards no session runs, no interval is live, the target list
\* is empty, one record has been appended and the summary is shown.
C16_StopFinalizesLikeTimeout ==
  [][ev'.op = "stopGame" =>
       /\ isGameStarted
       /\ ~isGameStarted'
       /\ timers' = {}
       /\ targets' = <<>>
       /\ Len(gameRecords') = Len(gameRecords) + 1
       /\ showSummary']_vars

\* C17: at the end of a session the target list and the particle list are
\* empty, and the target list is empty whenever no session runs.
C17_ClearedAtEnd ==
  /\ ev.op \in EndOps => Len(targets) = 0 /\ Len(particles) = 0
  /\ ~isGameStarted => Len(targets) = 0

Sorted(recs) == \A k \in 1..(Len(recs) - 1) : recs[k].score >= recs[k + 1].score
Count(recs, r) == Cardinality({k \in 1..Len(recs) : recs[k] = r})
Range(recs) == {recs[k] : k \in 1..Len(recs)}

\* C18: the store starts empty and changes only by writes; after every write
\* the stored records are sorted by score, highest first; a write
\* keeps every record that was stored, unaltered, and adds only records of
\* the finalization that writes; getTopRecords(n) is the first min(n, size)
\* records of the store, which no record outside it exceeds in score.
C18_RecordsSortedAndKept ==
  [][gameRecords' # gameRecords =>
       /\ Sorted(getAllRecords(gameRecords'))
       /\ Len(gameRecords') >= Len(gameRecords)
       /\ \A r \in Range(gameRecords) :
            Count(gameRecords', r) = Count(gameRecords, r)
       /\ \A r \in Range(gameRecords') \ Range(gameRecords) :
            r.g_session = session /\ r.id = now' /\ ev'.op \in EndOps
       /\ \A n \in 0..TopLimit :
            \A all \in {getAllRecords(gameRecords')} :
              \A top \in {getTopRecords(gameRecords', n)} :
                /\ Len(top) = IF n < Len(all) THEN n ELSE Len(all)
                /\ \A i \in 1..Len(top) :
                     /\ top[i] = all[i]
                     /\ \A j \in (Len(top) + 1)..Len(all) :
                          all[j].score <= top[i].score
  ]_vars

C18_Witness ==
  /\ Len(gameRecords) = 2
  /\ gameRecords[1].score > gameRecords[2].score
  /\ gameRecords[1].id > gameRecords[2].id

\* C19: a failure of the record store at the end of a session does not block
\* the finalization: the component stays mounted, the session no longer
\* runs, the target list is empty, no interval is live, and the timeout shows
\* the summary (the manual stop shows it in no case).
C19_StorageFailureDoesNotBlock ==
  [][storageFails /\ ev'.op \in EndOps \cup {"renderThrows"} =>
       /\ mounted'
       /\ ~isGameStarted'
       /\ targets' = <<>>
       /\ timers' = {}
       /\ (ev'.op # "stopGame" => showSummary')]_vars

\* C20: right after a start, of the first and of every later session, the
\* score, the click counts, the reaction average and sum and the distance are
\* 0, the remaining time is the configured duration, the session runs, and
\* every live target was created in this start.
C20_StartResets ==
  [][ev'.op = "startGame" =>
       /\ score' = 0
       /\ gameStats'.totalClicks = 0
       /\ gameStats'.accurateClicks = 0
       /\ gameStats'.averageReactionTime.num = 0
       /\ gameStats'.averageReactionTime.den > 0
       /\ gameStats'.totalDistance = 0
       /\ totalReactionTimeRef' = 0
       /\ timeLeft' = sessionDuration'
       /\ sessionDuration' = sessionDuration
       /\ isGameStarted'
       /\ \A k \in 1..Len(targets') :
            /\ targets'[k].createdAt = now' /\ now' > now
            /\ ~targets'[k].isHit /\ targets'[k].clickCount = 0]_vars

C20_Witness ==
  /\ ev.op = "startGame"
  /\ session = 2
  /\ \E k \in 1..Len(gameRecords) :
       gameRecords[k].g_session = 1 /\ gameRecords[k].accurateClicks > 0

\* C21: between the end of a session and the next start, the score, the
\* click counts, the reaction average and the distance do not change, whatever
\* event happens (a pending settle callback, a particle expiry, a mouse move,
\* a tick): the summary shows the values of the finalization.
C21_FrozenAfterEnd ==
  [][~isGameStarted /\ ~isGameStarted' =>
       score' = score /\ gameStats' = gameStats]_vars

Options(opts) == {opts[k] : k \in 1..Len(opts)}

\* C22: while a session runs, the duration, the cursor style, the sensitivity
\* and the sound selection do not change; in every state the duration is one
\* of 15, 30, 60, 120, 300, 600 and the sensitivity one of 0.5, 0.75, 1, 1.25,
\* 1.5 (here in quarters), so every start is made with a permitted
\* configuration.
C22_SettingsFixedWhileRunning ==
  [][
    /\ (isGameStarted =>
          /\ sessionDuration' = sessionDuration
          /\ selectedCursor' = selectedCursor
          /\ mouseSensitivity' = mouseSensitivity
          /\ selectedSound' = selectedSound)
    /\ sessionDuration' \in Options(SESSION_OPTIONS)
    /\ mouseSensitivity' \in Options(SENSITIVITY_OPTIONS)
    /\ selectedCursor' \in Options(CURSOR_OPTIONS)
    /\ selectedSound' \in Options(SOUND_OPTIONS)
    /\ (ev'.op = "startGame" => timeLeft' \in Options(SESSION_OPTIONS))
  ]_vars

\* a session that runs with settings that were all changed or kept before it
C22_Witness ==
  /\ isGameStarted
  /\ ev.op = "tick"
  /\ sessionDuration = 30
  /\ selectedCursor = "crosshair"

\* C23: the generate call of startGame is made while the play area is not
\* mounted and is a no-op that fails nothing: the session runs with its
\* interval, score and statistics are those of the reset, and the generation
\* succeeds at the next opportunity, the effect of the render that mounts the
\* play area, which is the only call that creates targets in this event.
C23_GenerateWithoutCanvas ==
  [][ev'.op = "startGame" =>
       /\ ~canvasRef
       /\ \A rnd \in Rnd(isIntenseMode) :
            generateTarget(targets, targets, canvasRef, rnd, DateNow) = targets
       /\ isGameStarted'
       /\ \E tm \in timers' : tm.id = timerRef'
       /\ score' = 0
       /\ gameStats' = InitialStats
       /\ Len(targets') \in 1..MaxFanOut
       /\ \A k \in 1..Len(targets') : targets'[k].createdAt = now']_vars

C23_Witness ==
  /\ ev.op = "startGame"
  /\ session = 1
  /\ Len(targets) = 1
  /\ targets[1].id = now

\* the events of a handler call that names a target id
TargetOps == {"noMatch", "firstClick", "resolve", "mouseDown", "drag", "pathComplete"}

\* C24: a target click or a drag-start with a target id that is not in the
\* live list, and a drag-move whose drag target is not in the live list, are
\* ignored: the live list, the score, accurateClicks, the reaction-time sum
\* and the drag state stay as they are and no target is generated.
C24_NoMatchIgnored ==
  [][
    /\ (ev'.op \in TargetOps /\ Live(targets, ev'.id) = {} =>
          /\ ev'.op \in {"noMatch", "mouseDown"}
          /\ targets' = targets
          /\ score' = score
          /\ gameStats'.accurateClicks = gameStats.accurateClicks
          /\ totalReactionTimeRef' = totalReactionTimeRef
          /\ dragTarget' = dragTarget)
    /\ (ev'.op = "mouseMove" /\ dragTarget # <<>> =>
          /\ targets' = targets
          /\ score' = score
          /\ gameStats'.accurateClicks = gameStats.accurateClicks
          /\ totalReactionTimeRef' = totalReactionTimeRef
          /\ dragTarget' = dragTarget)
  ]_vars

\* a click that names a target which its settle callback has removed
C24_Witness ==
  /\ ev.op = "noMatch"
  /\ ev.id # NoTargetId
  /\ Live(targets, ev.id) = {}
  /\ targets # <<>>
  /\ score = 1

\* C25: target ids are unique: the live targets have pairwise distinct ids,
\* and no live target has the id of a target that was resolved and removed
\* earlier in the session, also when generate calls happen in the same or in
\* adjacent milliseconds.
C25_UniqueIds ==
  /\ \A i \in 1..Len(targets) : \A j \in 1..Len(targets) :
       targets[i].id = targets[j].id => i = j
  /\ \A k \in 1..Len(hitTimeouts) :
       hitTimeouts[k].settled /\ hitTimeouts[k].sess = session =>
         Live(targets, hitTimeouts[k].id) = {}

Min(a, b) == IF a < b THEN a ELSE b

\* the number of targets a generate call made with l live targets can leave
LiveAfterGenerate(l, intense) ==
  IF l >= 3 THEN {l}
  ELSE {Min(3, l + created) : created \in IF intense THEN {1, 2} ELSE {1}}

\* C26: a generate call made with L live targets adds nothing when L >= 3;
\* otherwise it creates 1 target outside intense mode and 1 or 2 in intense
\* mode and leaves min(3, L + created) live targets: the targets that were
\* live are kept, in their order, and nothing is added later for a target
\* that was dropped.  The calls are the one of a resolving click, with the
\* list of the click, and the one of the effect that finds the list empty,
\* at the start and after a settle callback.
C26_GenerateRespectsCap ==
  [][
    /\ (ev'.op = "resolve" =>
          /\ Len(targets') \in LiveAfterGenerate(Len(targets), isIntenseMode)
          /\ SubSeq(targets', 1, Len(targets)) = MarkHit(targets, ev'.id)
          /\ \A k \in (Len(targets) + 1)..Len(targets') :
               targets'[k].createdAt = now' /\ ~targets'[k].isHit)
    /\ (ev'.op = "startGame" =>
          Len(targets') \in LiveAfterGenerate(0, isIntenseMode))
    /\ (ev'.op = "settle" /\ isGameStarted =>
          LET kept == RemoveTarget(targets, ev'.id)
          IN IF kept = <<>>
               THEN Len(targets') \in LiveAfterGenerate(0, isIntenseMode)
               ELSE targets' = kept)
    /\ (ev'.op \notin {"resolve", "startGame", "settle"} =>
          Len(targets') <= Len(targets))
  ]_vars

\* a click in intense mode with one live target, which creates two
C26_Witness ==
  /\ ev.op = "resolve"
  /\ Len(targets) = 3
  /\ targets[1].isHit
  /\ targets[2].createdAt = now /\ targets[3].createdAt = now
  /\ targets[3].id = targets[2].id + 1

\* C27: a resolving click asks for the refill in its own step: after the
\* click the resolved target is still in the live list, flagged as hit, and
\* when fewer than 3 targets were live a target created by this click is in
\* the list with it; while the session runs, a hit target leaves the list
\* only by its settle callback.
C27_RefillAtTheClick ==
  [][
    /\ (ev'.op = "resolve" =>
          /\ Live(targets', ev'.id) # {}
          /\ \A k \in Live(targets, ev'.id) : targets'[k].isHit
          /\ (Len(targets) < 3 =>
                \E k \in (Len(targets) + 1)..Len(targets') :
                  targets'[k].createdAt = now' /\ ~targets'[k].isHit)
          /\ \E k \in 1..Len(hitTimeouts') :
               hitTimeouts'[k].id = ev'.id /\ ~hitTimeouts'[k].settled)
    /\ (isGameStarted /\ isGameStarted' =>
          \A k \in 1..Len(targets) :
            targets[k].isHit /\ Live(targets', targets[k].id) = {} =>
              ev'.op = "settle" /\ ev'.id = targets[k].id)
  ]_vars

\* the settle callback of a click that was made with one live target finds
\* the replacement in the list and removes only the resolved target
C27_Witness ==
  /\ ev.op = "settle"
  /\ isGameStarted
  /\ Len(targets) = 1
  /\ ~targets[1].isHit
  /\ targets[1].id > ev.id

\* C31: at most one session and one countdown interval are live at any time:
\* a start happens only when no session runs and no interval is live, every
\* interval a start created is cleared before the next start creates one, the
\* live interval is the one timerRef names and it lives only while its
\* session runs, so each tick lowers the remaining time by exactly 1.
C31_OneTimerAtATime ==
  [][
    /\ (ev'.op = "startGame" =>
          /\ ~isGameStarted
          /\ timers = {}
          /\ timers' = {NewTimer(timerRef', CurrentClosure)}
          /\ timerRef' # timerRef)
    /\ Cardinality(timers') <= 1
    /\ \A tm \in timers' : tm.id = timerRef' /\ isGameStarted'
    /\ (ev'.op = "tick" =>
          Cardinality(timers) = 1 /\ timeLeft' = timeLeft - 1)
  ]_vars

\* the countdown of a second session, run by the second interval alone
C31_Witness ==
  /\ ev.op = "tick"
  /\ session = 2
  /\ timerRef = 2
  /\ Cardinality(timers) = 1
  /\ timeLeft = sessionDuration - 1

\* the events of a handleMouseMove call
MoveOps == {"mouseMove", "drag", "pathComplete"}

\* No sample since the reset of startGame has added to totalDistance: every
\* sample explored has a displacement that is not zero.
NothingAddedSinceReset == gameStats.totalDistance = 0

\* C32: after the reset of the start, the first cursor-move sample is a
\* baseline that adds 0 to totalDistance; every later sample of the running
\* session adds the length of its displacement scaled by the sensitivity, and
\* totalDistance never decreases during a session.
C32_FirstSampleIsBaseline ==
  [][
    /\ (ev'.op \in MoveOps =>
          \E mv \in Movements :
            gameStats'.totalDistance =
              gameStats.totalDistance +
                IF NothingAddedSinceReset THEN 0
                ELSE MoveDistance(mv, mouseSensitivity))
    /\ (isGameStarted /\ session' = session =>
          gameStats'.totalDistance >= gameStats.totalDistance)
  ]_vars

\* the events in which a drag starts, moves or completes
DragOps == {"drag", "pathComplete"}

\* C33: no reachable state holds a path-following target: every live target
\* is a standard or a double-click target without a path, no drag target is
\* ever set and no target is flagged as dragged, so a drag-start finds no
\* path target and no drag-move or drag-completion happens.
C33_NoPathTarget ==
  [][
    /\ \A k \in 1..Len(targets') :
         /\ ~targets'[k].isPathTarget
         /\ targets'[k].pathLength = 0
         /\ ~targets'[k].isDragging
         /\ targets'[k].progress = Frac(0, 1)
    /\ dragTarget' = <<>>
    /\ ev'.op \notin DragOps
    /\ (ev'.op = "mouseDown" =>
          /\ PathTargetIds = {}
          /\ Live(targets, ev'.id) = {}
          /\ targets' = targets)
  ]_vars

\* a mouse-down that names a removed target while other targets are live
C33_Witness ==
  /\ isGameStarted
  /\ targets # <<>>
  /\ ev.op = "mouseDown"
  /\ ev.id # NoTargetId

\* C34: in every reachable state the score is at most accurateClicks: the
\* score rises only by the settle callback of a resolution that has added 1
\* to accurateClicks in the same session, however clicks, settle callbacks,
\* the end of the session and the next start are interleaved.
C34_ScoreAtMostAccurateClicks ==
  /\ score <= gameStats.accurateClicks
  /\ ev.op = "settle" => ev.sess = session

\* C35: the intense-mode flag does not carry over between sessions: at every
\* start, also after a session that ended in intense mode, the flag is false
\* in the render whose effect generates the first target, so the first
\* generation of a session creates exactly one target.
C35_IntenseDoesNotCarryOver ==
  [][ev'.op = "startGame" =>
       /\ ~isIntenseMode
       /\ Rnd(isIntenseMode) = [1..1 -> BOOLEAN]
       /\ Len(targets') = 1]_vars

\* C36: the records of the trend chart are the min(10, n) most recently
\* completed sessions of the n stored records, in the order of their
\* completion (the id of a record is the time of its finalization), whatever
\* the scores of the finished sessions.
C36_ChartShowsLatestGames ==
  \A all \in {getAllRecords(gameRecords)} :
    \A last \in {lastTenGames(gameRecords)} :
      /\ Len(last) = Min(ChartGames, Len(all))
      /\ \A i \in 1..Len(last) : \A j \in (i + 1)..Len(last) :
           last[i].id <= last[j].id
      /\ \A r \in Range(all) :
           \/ Count(last, r) = Count(all, r)
           \/ \A i \in 1..Len(last) : r.id <= last[i].id

====
